---- MODULE Spec2Model ----
(***************************************************************************)
(* Model of the Sorcerer orchestrator (sorcerer/src/sorcerer.rs): the      *)
(* startup recovery of spell subscriptions (resubscribe_spells) and the    *)
(* unbounded-concurrency event loop of Sorcerer::start.                    *)
(***************************************************************************)
EXTENDS Integers, Sequences, FiniteSets, TLC

\* Bounds of the model.
MaxSpells == 2
MaxEvents == 2
MaxWorkers == 2
MaxCalls == 2
MaxWorkerCalls == 4

\* Owners a registered spell may have: the host, a local worker, and a peer
\* that is not known locally.
Owners == {"host", "worker", "stranger"}
LocalPeers == {"host", "worker"}

\* What is persisted for a spell, by the first place of the try block
\* (sorcerer.rs:110-137) at which it matters.
PersistedKinds ==
    {"noService", "unreadable", "malformed", "absent", "oneshot", "periodic"}

VARIABLES
    registry,       \* spell_storage: owner -> sequence of spell ids
    persisted,      \* per registered spell: what services/spell_service_api hold
    pc,             \* position of the "sorcerer" task
    todo,           \* spells the recovery loop has still to visit (head = current)
    recoveryRuns,   \* number of calls of resubscribe_spells
    subscribeCalls, \* spell_event_bus_api.subscribe calls, in order
    subscriptions,  \* spells with a live subscription in the event bus
    observed,       \* spell_metrics.observe_started_spell count
    warned,         \* spells for which recovery logged a warning
    channel,        \* buffered TriggerEvents of the unbounded channel
    closed,         \* every sender of the channel has been dropped
    nextId,         \* id of the next TriggerEvent to be sent
    sent,           \* every TriggerEvent accepted by the channel so far
    inflight,       \* executions started by for_each_concurrent, not finished
    finished,       \* completed executions, with their outcome
    dispatchCount,  \* per event id: number of execute_script calls
    live,           \* per spell id: number of live subscriptions in the event bus
    calls,          \* number of builtin calls made so far
    lastCall,       \* the builtin call that returned last, with its result
    workers,        \* Workers: per worker id "absent", "inactive", "active", "removed"
    dealOf,         \* per worker id: the deal it was created for
    dealCfg,        \* per worker id: trigger config of its deal-bound spell
    dealSub,        \* per worker id: live subscriptions of its deal-bound spell
    ops,            \* activate/deactivate/remove calls in progress
    done,           \* per worker id: the calls completed on it, in order
    blocking        \* is_active checks running on the blocking pool

vars == <<registry, persisted, pc, todo, recoveryRuns, subscribeCalls,
          subscriptions, observed, warned, channel, closed, nextId, sent,
          inflight, finished, dispatchCount, live, calls, lastCall, workers,
          dealOf, dealCfg, dealSub, ops, done, blocking>>

recoveryVars == <<todo, recoveryRuns, subscribeCalls, subscriptions, observed, warned>>
channelVars == <<channel, closed, nextId, sent>>
loopVars == <<inflight, finished, dispatchCount>>
workerVars == <<workers, dealOf, dealCfg, dealSub, ops, done>>
builtinVars == <<calls, lastCall, workerVars, blocking>>
taskVars == <<pc, todo, recoveryRuns, subscribeCalls, observed, warned, channelVars, loopVars>>

----------------------------------------------------------------------------
\* Helpers

Range(f) == {f[i] : i \in DOMAIN f}

RECURSIVE SortedSeq(_)
SortedSeq(S) ==
    IF S = {} THEN <<>>
    ELSE LET m == CHOOSE x \in S : \A y \in S : x <= y
         IN <<m>> \o SortedSeq(S \ {m})

\* The spells of the registry, whatever their owner.
RegisteredSpells(reg) == UNION {Range(reg[o]) : o \in DOMAIN reg}

\* The groupings of spells 1..n by owner. Spell ids are opaque, so one
\* numbering of the spells stands for each grouping: an owner's spells are
\* numbered consecutively.
OwnerRank(o) == CASE o = "host" -> 1 [] o = "worker" -> 2 [] OTHER -> 3
Groupings(n) ==
    {own \in [1..n -> Owners] :
        \A i, j \in 1..n : i <= j => OwnerRank(own[i]) <= OwnerRank(own[j])}

\* Orders in which a HashMap may yield its owners.
OwnerOrders ==
    {p \in [1..Cardinality(Owners) -> Owners] : \A i, j \in DOMAIN p : p[i] = p[j] => i = j}

\* As Flatten, but only the first spell of each owner is visited.
RECURSIVE FlattenFirstOnly(_, _)
FlattenFirstOnly(reg, order) ==
    IF order = <<>> THEN <<>>
    ELSE (IF reg[Head(order)] = <<>> THEN <<>> ELSE <<Head(reg[Head(order)])>>)
             \o FlattenFirstOnly(reg, Tail(order))

\* get_registered_spells().values().flatten()
RECURSIVE Flatten(_, _)
Flatten(reg, order) ==
    IF order = <<>> THEN <<>>
    ELSE reg[Head(order)] \o Flatten(reg, Tail(order))

\* services.get_service_owner(PeerScope::Host, spell_id, "")
OwnerOf(s) == CHOOSE o \in Owners : s \in Range(registry[o])
get_service_owner(s) ==
    IF persisted[s] \in {"noService", "removed"} THEN [ok |-> FALSE, owner |-> "none"]
    ELSE [ok |-> TRUE, owner |-> OwnerOf(s)]

\* scopes.scope(spell_owner)
scope(owner) ==
    IF owner \in LocalPeers THEN [ok |-> TRUE, scope |-> owner]
    ELSE [ok |-> FALSE, scope |-> "none"]

\* spell_service_api.get_trigger_config(params)
get_trigger_config(s) ==
    IF persisted[s] = "unreadable" THEN [ok |-> FALSE, config |-> "none"]
    ELSE [ok |-> TRUE, config |-> persisted[s]]

\* from_user_config(&config): Err, Ok(None) or Ok(Some(config))
from_user_config(config) ==
    IF config = "malformed" THEN [ok |-> FALSE, config |-> "none"]
    ELSE IF config = "absent" THEN [ok |-> TRUE, config |-> "none"]
    ELSE [ok |-> TRUE, config |-> config]

\* As into_rescheduled, but every present config counts as reschedulable.
into_rescheduled_always(config) == config

\* config.and_then(|c| c.into_rescheduled())
into_rescheduled(config) ==
    IF config = "periodic" THEN "periodic" ELSE "none"

\* The synchronous part of the try block for one spell: "panic" (expect),
\* "err" (a `?` left the block), "skip" (the else branch) or "subscribe".
TryBlock(s) ==
    LET o == get_service_owner(s) IN
    IF ~o.ok THEN "err"
    ELSE LET sc == scope(o.owner) IN
    IF ~sc.ok THEN "panic"
    ELSE LET c == get_trigger_config(s) IN
    IF ~c.ok THEN "err"
    ELSE LET u == from_user_config(c.config) IN
    IF ~u.ok THEN "err"
    ELSE IF into_rescheduled(u.config) # "none" THEN "subscribe"
    ELSE "skip"

\* As NextSpell, but the first spell that is not subscribed ends the loop.
NextSpellAbort(rest) == <<>>

\* The for loop after a spell whose result was Err or that was skipped.
NextSpell(rest) == Tail(rest)

\* As AfterFailure, with the spell that could not be rescheduled deleted.
AfterFailureRemove(reg, s) == [o \in DOMAIN reg |-> SelectSeq(reg[o], LAMBDA x : x # s)]

\* The registry after a spell was skipped or its result was Err: "We do not
\* remove the spell we aren't able to reschedule."
AfterFailure(reg, s) == reg

\* As LimitAllows, for for_each_concurrent(Some(1), ..).
LimitAllowsOne(n) == n < 1

\* for_each_concurrent(None, ..): no limit on the executions in flight.
LimitAllows(n) == TRUE

\* As LoopRunning, with the stream polled while recovery is under way.
LoopRunningEarly(p) == p \in {"recover", "subscribing", "loop"}

\* The stream is polled only after resubscribe_spells().await.
LoopRunning(p) == p = "loop"

\* As AfterReceive, with the event left in the buffer.
AfterReceiveKeep(ch) == ch

\* The stream hands each buffered event over once.
AfterReceive(ch) == Tail(ch)

\* As Spawned, but an event received while another runs is dropped.
SpawnedUnlessBusy(running, e) == IF running = {} THEN {e} ELSE running

\* The future made for an event joins the futures polled by the loop.
Spawned(running, e) == running \cup {e}

\* As AfterExecution, with an error of the execution ending the task.
AfterExecutionPropagate(p, outcome) == IF outcome = "err" THEN "done" ELSE p

\* execute_script(..).await yields (): the outcome does not reach the loop.
AfterExecution(p, outcome) == p

\* Worker ids the key storage can hand out, and the deals of the chain.
WorkerIds == 1..MaxWorkers
Deals == {"dealA", "dealB"}

\* The services of the builtin catalog and the function names of each.
Services == {"spell", "getDataSrv", "errorHandlingSrv", "callbackSrv", "worker"}

\* make_spell_builtins and make_worker_builtin: the names given to
\* CustomService::new for each service.
Catalog(service) ==
    CASE service = "spell" -> {"install", "remove", "list", "update_trigger_config"}
      [] service = "getDataSrv" -> {"spell_id", "-relay-"}
      [] service = "errorHandlingSrv" -> {"error"}
      [] service = "callbackSrv" -> {"response"}
      [] service = "worker" -> {"create", "get_worker_id", "remove", "list",
                                "activate", "deactivate", "is_active"}
      [] OTHER -> {}

\* As HasDefault, with a default handler given to every service.
HasDefaultAll(service) == TRUE

\* The second argument of CustomService::new is Some(..) for getDataSrv only.
HasDefault(service) == service = "getDataSrv"

\* What a call of service.fn reaches: the function of that name, else the
\* default handler of the service, else nothing.
Handler(service, fn) ==
    IF fn \in Catalog(service) THEN "function"
    ELSE IF service \in Services /\ HasDefault(service) THEN "default"
    ELSE "none"

\* The name under which lastCall records a call: functions of the worker
\* service by their bare name, the others with their service.
Op(service, fn) ==
    CASE service = "worker" -> fn
      [] service = "spell" /\ fn = "install" -> "spell.install"
      [] service = "spell" /\ fn = "remove" -> "spell.remove"
      [] service = "spell" /\ fn = "list" -> "spell.list"
      [] service = "spell" /\ fn = "update_trigger_config" -> "spell.update_trigger_config"
      [] service = "spell" -> "spell.other"
      [] service = "getDataSrv" /\ fn = "spell_id" -> "getDataSrv.spell_id"
      [] service = "getDataSrv" /\ fn = "-relay-" -> "getDataSrv.-relay-"
      [] service = "getDataSrv" -> "getDataSrv.default"
      [] service = "errorHandlingSrv" /\ fn = "error" -> "errorHandlingSrv.error"
      [] service = "errorHandlingSrv" -> "errorHandlingSrv.other"
      [] service = "callbackSrv" /\ fn = "response" -> "callbackSrv.response"
      [] OTHER -> "callbackSrv.other"

\* As WrapperOf, with every closure ending in wrap.
WrapperAlwaysWrap(op) == "wrap"

\* The wrapper each closure ends with: wrap_unit for spell remove and
\* update_trigger_config, error, response, worker remove, activate and
\* deactivate; wrap for the others.
WrapperOf(op) ==
    IF op \in {"spell.remove", "spell.update_trigger_config", "errorHandlingSrv.error",
               "callbackSrv.response", "remove", "activate", "deactivate"}
    THEN "wrap_unit"
    ELSE "wrap"

\* Results with which a handler succeeds.
OkResults == {"ok", "true", "false"}

\* wrap(Ok(v)) is a value, wrap_unit(Ok(())) is empty, an Err is an error;
\* a call that reaches no handler has no outcome of a handler.
Outcome(wrapper, result) ==
    IF result = "no_handler" THEN "none"
    ELSE IF result \notin OkResults THEN "error"
    ELSE IF wrapper = "wrap_unit" THEN "empty"
    ELSE "value"

\* lastCall before any builtin call has returned.
NoCall == [n |-> 0, op |-> "none", arg |-> 0, result |-> "none", out |-> "none"]

\* lastCall once a further call has returned.
Returned(op, arg, result) ==
    [n |-> lastCall.n + 1, op |-> op, arg |-> arg, result |-> result,
     out |-> Outcome(WrapperOf(op), result)]

\* Scripts, and with them the builtin calls, run once the node has started.
NodeStarted == pc # "init"

\* As BlocksScheduler, with the check run inline by the calling task.
BlocksSchedulerInline(b) == b # {}

\* tokio::task::spawn_blocking: a deal-activation check that is under way
\* occupies a thread of the blocking pool, never the cooperative scheduler.
BlocksScheduler(b) == FALSE

----------------------------------------------------------------------------
TypeOK ==
    /\ pc \in {"init", "recover", "subscribing", "loop", "draining", "done", "panicked"}
    /\ closed \in BOOLEAN
    /\ nextId \in 1..(MaxEvents + 1)
    /\ subscriptions \subseteq 1..Len(persisted)
    /\ warned \subseteq 1..Len(persisted)
    /\ subscriptions = {s \in DOMAIN live : live[s] > 0}
    /\ calls \in 0..MaxWorkerCalls

Init ==
    \E n \in 0..MaxSpells :
      \E own \in Groupings(n) :
        \E kinds \in [1..n -> PersistedKinds] :
          /\ registry = [o \in Owners |-> SortedSeq({s \in 1..n : own[s] = o})]
          /\ persisted = kinds
          /\ pc = "init"
          /\ todo = <<>>
          /\ recoveryRuns = 0
          /\ subscribeCalls = <<>>
          /\ subscriptions = {}
          /\ observed = 0
          /\ warned = {}
          /\ channel = <<>>
          /\ closed = FALSE
          /\ nextId = 1
          /\ sent = {}
          /\ inflight = {}
          /\ finished = {}
          /\ dispatchCount = [i \in 1..MaxEvents |-> 0]
          /\ live = [s \in 1..MaxSpells |-> 0]
          /\ calls = 0
          /\ lastCall = NoCall
          /\ workers = [w \in WorkerIds |-> "absent"]
          /\ dealOf = [w \in WorkerIds |-> "none"]
          /\ dealCfg = [w \in WorkerIds |-> "none"]
          /\ dealSub = [w \in WorkerIds |-> 0]
          /\ ops = {}
          /\ done = [w \in WorkerIds |-> <<>>]
          /\ blocking = {}

\* Sorcerer::start: the task is spawned and calls resubscribe_spells.
Start ==
    /\ pc = "init"
    /\ pc' = "recover"
    /\ recoveryRuns' = recoveryRuns + 1
    /\ \E order \in OwnerOrders : todo' = Flatten(registry, order)
    /\ UNCHANGED <<registry, persisted, subscribeCalls, subscriptions, observed,
                   warned, channelVars, loopVars, live, builtinVars>>

\* One iteration of the recovery loop up to its await (or to its end).
RecoverSpell ==
    /\ pc = "recover"
    /\ todo # <<>>
    /\ LET s == Head(todo)
           r == TryBlock(s)
       IN  \/ /\ r = "panic"
              /\ pc' = "panicked"
              /\ UNCHANGED <<registry, todo, subscribeCalls, warned>>
           \/ /\ r = "err"
              /\ warned' = warned \cup {s}
              /\ registry' = AfterFailure(registry, s)
              /\ todo' = NextSpell(todo)
              /\ UNCHANGED <<pc, subscribeCalls>>
           \/ /\ r = "skip"
              /\ warned' = warned \cup {s}
              /\ registry' = AfterFailure(registry, s)
              /\ todo' = NextSpell(todo)
              /\ UNCHANGED <<pc, subscribeCalls>>
           \/ /\ r = "subscribe"
              /\ subscribeCalls' = Append(subscribeCalls, s)
              /\ pc' = "subscribing"
              /\ UNCHANGED <<registry, todo, warned>>
    /\ UNCHANGED <<persisted, recoveryRuns, subscriptions, observed,
                   channelVars, loopVars, live, builtinVars>>

\* spell_event_bus_api.subscribe(..).await returns Ok or Err.
SubscribeReturn ==
    /\ pc = "subscribing"
    /\ LET s == Head(todo)
       IN  \/ /\ subscriptions' = subscriptions \cup {s}
              /\ live' = [live EXCEPT ![s] = @ + 1]
              /\ observed' = observed + 1
              /\ UNCHANGED <<registry, warned>>
           \/ /\ warned' = warned \cup {s}
              /\ registry' = AfterFailure(registry, s)
              /\ UNCHANGED <<subscriptions, live, observed>>
    /\ todo' = NextSpell(todo)
    /\ pc' = "recover"
    /\ UNCHANGED <<persisted, recoveryRuns, subscribeCalls,
                   channelVars, loopVars, builtinVars>>

\* resubscribe_spells returns; the task turns to the event stream.
RecoveryDone ==
    /\ pc = "recover"
    /\ todo = <<>>
    /\ pc' = "loop"
    /\ UNCHANGED <<registry, persisted, recoveryVars, channelVars, loopVars, live, builtinVars>>

\* The event bus sends a TriggerEvent of a subscribed spell on the unbounded
\* channel; the send fails once the task has dropped the receiver.
Send ==
    /\ ~closed
    /\ pc \notin {"done", "panicked"}
    /\ nextId <= MaxEvents
    /\ \E s \in subscriptions, h \in BOOLEAN :
         LET e == [id |-> nextId, spell |-> s, hangs |-> h]
         IN  /\ channel' = Append(channel, e)
             /\ sent' = sent \cup {e}
    /\ nextId' = nextId + 1
    /\ UNCHANGED <<registry, persisted, pc, recoveryVars, closed, loopVars, live, builtinVars>>

\* The event bus shuts down and drops the sender.
Close ==
    /\ ~closed
    /\ closed' = TRUE
    /\ UNCHANGED <<registry, persisted, pc, recoveryVars, channel, nextId, sent, loopVars,
                   live, builtinVars>>

\* for_each_concurrent takes the next event and starts its execution.
Receive ==
    /\ LoopRunning(pc)
    /\ ~BlocksScheduler(blocking)
    /\ channel # <<>>
    /\ LimitAllows(Cardinality(inflight))
    /\ LET e == Head(channel)
       IN  /\ inflight' = Spawned(inflight, e)
           /\ dispatchCount' = [dispatchCount EXCEPT ![e.id] = @ + 1]
    /\ channel' = AfterReceive(channel)
    /\ UNCHANGED <<registry, persisted, pc, recoveryVars, closed, nextId, sent, finished,
                   live, builtinVars>>

\* An execution that terminates does so, with or without an error.
Finish(e) ==
    /\ pc \in {"loop", "draining"}
    /\ ~BlocksScheduler(blocking)
    /\ e \in inflight
    /\ ~e.hangs
    /\ \E outcome \in {"ok", "err"} :
         /\ finished' = finished \cup {[event |-> e, outcome |-> outcome]}
         /\ pc' = AfterExecution(pc, outcome)
    /\ inflight' = inflight \ {e}
    /\ UNCHANGED <<registry, persisted, recoveryVars, channelVars, dispatchCount,
                   live, builtinVars>>

\* The stream ends: the channel is closed and its buffer is empty.
StreamEnd ==
    /\ pc = "loop"
    /\ closed
    /\ channel = <<>>
    /\ pc' = "draining"
    /\ UNCHANGED <<registry, persisted, recoveryVars, channelVars, loopVars, live, builtinVars>>

\* for_each_concurrent completes once no execution is left; the task ends.
TaskDone ==
    /\ pc = "draining"
    /\ inflight = {}
    /\ pc' = "done"
    /\ UNCHANGED <<registry, persisted, recoveryVars, channelVars, loopVars, live, builtinVars>>

----------------------------------------------------------------------------
\* The spell builtins (spell_builtins.rs), as the specification describes them.

\* A config that makes the event bus hold a subscription for the spell.
HasTriggers(cfg) == cfg \in {"periodic", "oneshot"}

\* Configs a script can pass to install and update_trigger_config.
UserConfigs == {"periodic", "oneshot", "absent"}

\* spell_event_bus_api.unsubscribe(spell_id) followed, when the config has
\* triggers, by subscribe(spell_id, config).
Resubscribed(l, s, cfg) == [l EXCEPT ![s] = IF HasTriggers(cfg) THEN 1 ELSE 0]
Subscribed(l) == {s \in DOMAIN l : l[s] > 0}

\* spell.install: a new spell is registered for its owner and subscribed.
SpellInstall ==
    /\ NodeStarted
    /\ ~BlocksScheduler(blocking)
    /\ calls < MaxCalls
    /\ Len(persisted) < MaxSpells
    /\ \E owner \in LocalPeers, cfg \in UserConfigs :
         LET s == Len(persisted) + 1
         IN  /\ persisted' = Append(persisted, cfg)
             /\ registry' = [registry EXCEPT ![owner] = Append(@, s)]
             /\ live' = Resubscribed(live, s, cfg)
             /\ lastCall' = Returned("spell.install", s, "ok")
    /\ subscriptions' = Subscribed(live')
    /\ calls' = calls + 1
    /\ UNCHANGED <<taskVars, workerVars, blocking>>

\* spell.update_trigger_config: the config is replaced, the old subscription
\* is dropped and the new one installed.
SpellUpdate ==
    /\ NodeStarted
    /\ ~BlocksScheduler(blocking)
    /\ calls < MaxCalls
    /\ \E s \in RegisteredSpells(registry), cfg \in UserConfigs :
         /\ persisted[s] \notin {"noService", "unreadable"}
         /\ persisted' = [persisted EXCEPT ![s] = cfg]
         /\ live' = Resubscribed(live, s, cfg)
         /\ lastCall' = Returned("spell.update_trigger_config", s, "ok")
    /\ subscriptions' = Subscribed(live')
    /\ calls' = calls + 1
    /\ UNCHANGED <<registry, taskVars, workerVars, blocking>>

\* spell.remove: the spell is unsubscribed and deleted from the registry.
SpellRemove ==
    /\ NodeStarted
    /\ ~BlocksScheduler(blocking)
    /\ calls < MaxCalls
    /\ \E s \in RegisteredSpells(registry) :
         /\ persisted' = [persisted EXCEPT ![s] = "removed"]
         /\ registry' = [o \in Owners |-> SelectSeq(registry[o], LAMBDA x : x # s)]
         /\ live' = [live EXCEPT ![s] = 0]
         /\ lastCall' = Returned("spell.remove", s, "ok")
    /\ subscriptions' = Subscribed(live')
    /\ calls' = calls + 1
    /\ UNCHANGED <<taskVars, workerVars, blocking>>

----------------------------------------------------------------------------
\* The worker builtins (worker_builins.rs), as the specification describes
\* them; the closures of sorcerer.rs pass the call on and wrap the result.

WorkerOps == {"activate", "deactivate", "remove"}
DealConfigs == {"periodic", "oneshot"}

\* As Found, with a removed worker still found in the table.
FoundAny(tbl, w) == tbl[w] # "absent"

\* The worker table holds a record for the worker id.
Found(tbl, w) == tbl[w] \in {"inactive", "active"}

\* As CanEnter, without an ordering point.
CanEnterUnordered(o, w) == TRUE

\* The per-worker ordering point: a call enters once no call on the same
\* worker is between its two halves.
CanEnter(o, w) == ~\E x \in o : x.w = w /\ x.step = "run"

\* As AllocWorkerId, with the identity derived from the deal id alone.
AllocWorkerIdByDeal(tbl, deals, deal) ==
    IF \E w \in WorkerIds : tbl[w] = "removed" /\ deals[w] = deal
    THEN CHOOSE w \in WorkerIds : tbl[w] = "removed" /\ deals[w] = deal
    ELSE IF \E w \in WorkerIds : tbl[w] = "absent"
         THEN CHOOSE w \in WorkerIds : tbl[w] = "absent" /\ \A v \in WorkerIds : tbl[v] = "absent" => w <= v
         ELSE 0

\* create allocates an identity no worker has had; 0 when none is left.
AllocWorkerId(tbl, deals, deal) ==
    IF \E w \in WorkerIds : tbl[w] = "absent"
    THEN CHOOSE w \in WorkerIds : tbl[w] = "absent" /\ \A v \in WorkerIds : tbl[v] = "absent" => w <= v
    ELSE 0

\* As SubAfterActivate, with no subscription installed.
SubAfterActivateNone(cfg) == 0

\* activate unsubscribes the deal-bound spell and subscribes it again when
\* its config can be rescheduled.
SubAfterActivate(cfg) == IF into_rescheduled(cfg) # "none" THEN 1 ELSE 0

\* As SubAfterDeactivate, with the subscription left in the event bus.
SubAfterDeactivateKept(sub) == sub

\* deactivate tears the subscription of the deal-bound spell down.
SubAfterDeactivate(sub) == 0

\* As SubAfterRemove, with the subscription left in the event bus.
SubAfterRemoveKept(sub) == sub

\* remove unsubscribes the spells scoped to the worker.
SubAfterRemove(sub) == 0

\* As FlagAfterActivate, with the flag of an active worker flipped.
FlagAfterActivateToggle(flag) == IF flag = "active" THEN "inactive" ELSE "active"

\* activate sets the activation flag, whatever it was.
FlagAfterActivate(flag) == "active"

\* As FlagAfterDeactivate, with the flag of an inactive worker flipped.
FlagAfterDeactivateToggle(flag) == IF flag = "inactive" THEN "active" ELSE "inactive"

\* deactivate clears the activation flag, whatever it was.
FlagAfterDeactivate(flag) == "inactive"

\* As CreatedFlag, with the worker active from its creation.
CreatedFlagActive(deal) == "active"

\* create registers the worker as Created(inactive).
CreatedFlag(deal) == "inactive"

\* is_deal_active: the activation flag of the worker.
is_deal_active(tbl, w) == tbl[w] = "active"

\* worker.create: a worker bound to the deal, inactive; a deal that has a
\* worker already is refused.
WorkerCreate ==
    /\ NodeStarted
    /\ ~BlocksScheduler(blocking)
    /\ calls < MaxWorkerCalls
    /\ \E deal \in Deals, cfg \in DealConfigs :
         LET w == AllocWorkerId(workers, dealOf, deal)
         IN  IF \E v \in WorkerIds : Found(workers, v) /\ dealOf[v] = deal
             THEN /\ lastCall' = Returned("create", 0, "exists")
                  /\ UNCHANGED <<workers, dealOf, dealCfg>>
             ELSE /\ w # 0
                  /\ workers' = [workers EXCEPT ![w] = CreatedFlag(deal)]
                  /\ dealOf' = [dealOf EXCEPT ![w] = deal]
                  /\ dealCfg' = [dealCfg EXCEPT ![w] = cfg]
                  /\ lastCall' = Returned("create", w, "ok")
    /\ calls' = calls + 1
    /\ UNCHANGED <<registry, persisted, subscriptions, live, taskVars,
                   dealSub, ops, done, blocking>>

\* A script calls worker.activate, worker.deactivate or worker.remove; the
\* call waits at the ordering point of its worker.
WorkerCall(op, w) ==
    /\ NodeStarted
    /\ ~BlocksScheduler(blocking)
    /\ calls < MaxWorkerCalls
    /\ [op |-> op, w |-> w, step |-> "wait"] \notin ops
    /\ ops' = ops \cup {[op |-> op, w |-> w, step |-> "wait"]}
    /\ calls' = calls + 1
    /\ UNCHANGED <<registry, persisted, subscriptions, live, taskVars, lastCall,
                   workers, dealOf, dealCfg, dealSub, done, blocking>>

\* The call passes the ordering point: a worker that is not in the table
\* makes it return "not found"; otherwise its first half runs (the flag of
\* activate and deactivate, the unsubscription of remove).
WorkerEnter(o) ==
    /\ o \in ops
    /\ o.step = "wait"
    /\ ~BlocksScheduler(blocking)
    /\ CanEnter(ops, o.w)
    /\ IF ~Found(workers, o.w)
       THEN /\ ops' = ops \ {o}
            /\ lastCall' = Returned(o.op, o.w, "not_found")
            /\ UNCHANGED <<workers, dealSub>>
       ELSE /\ ops' = (ops \ {o}) \cup {[o EXCEPT !.step = "run"]}
            /\ workers' = [workers EXCEPT ![o.w] =
                               CASE o.op = "activate" -> FlagAfterActivate(@)
                                 [] o.op = "deactivate" -> FlagAfterDeactivate(@)
                                 [] OTHER -> @]
            /\ dealSub' = [dealSub EXCEPT ![o.w] =
                               IF o.op = "remove" THEN SubAfterRemove(@) ELSE @]
            /\ UNCHANGED lastCall
    /\ UNCHANGED <<registry, persisted, subscriptions, live, taskVars, calls,
                   dealOf, dealCfg, done, blocking>>

\* The second half of the call (the subscription of activate and deactivate,
\* the deletion of remove); the call returns and leaves the ordering point.
WorkerLeave(o) ==
    /\ o \in ops
    /\ o.step = "run"
    /\ ~BlocksScheduler(blocking)
    /\ ops' = ops \ {o}
    /\ dealSub' = [dealSub EXCEPT ![o.w] =
                       CASE o.op = "activate" -> SubAfterActivate(dealCfg[o.w])
                         [] o.op = "deactivate" -> SubAfterDeactivate(@)
                         [] OTHER -> @]
    /\ workers' = [workers EXCEPT ![o.w] = IF o.op = "remove" THEN "removed" ELSE @]
    /\ done' = [done EXCEPT ![o.w] = Append(@, o.op)]
    /\ lastCall' = Returned(o.op, o.w, "ok")
    /\ UNCHANGED <<registry, persisted, subscriptions, live, taskVars, calls,
                   dealOf, dealCfg, blocking>>

\* worker.is_active: the check is handed to the blocking pool, where it may
\* stay for any time.
IsActiveCall(w) ==
    /\ NodeStarted
    /\ ~BlocksScheduler(blocking)
    /\ calls < MaxCalls
    /\ \A b \in blocking : b.w # w
    /\ blocking' = blocking \cup {[w |-> w, nextId |-> nextId, n |-> lastCall.n]}
    /\ calls' = calls + 1
    /\ UNCHANGED <<registry, persisted, subscriptions, live, taskVars, lastCall, workerVars>>

\* The check ends and the call returns what is_deal_active read.
IsActiveReturn(b) ==
    /\ b \in blocking
    /\ blocking' = blocking \ {b}
    /\ lastCall' = Returned("is_active", b.w,
                            IF is_deal_active(workers, b.w) THEN "true" ELSE "false")
    /\ UNCHANGED <<registry, persisted, subscriptions, live, taskVars, calls, workerVars>>

\* As AfterJoinError, with the JoinError unwrapped in the calling task.
AfterJoinErrorPanic(p) == "panicked"

\* spawn_blocking(..).await?: a JoinError leaves the closure as its error
\* and goes no further.
AfterJoinError(p) == p

\* The blocking pool does not run the check to its end (the blocking task
\* is cancelled or panics): the call returns the JoinError as its error.
IsActiveFail(b) ==
    /\ b \in blocking
    /\ blocking' = blocking \ {b}
    /\ lastCall' = Returned("is_active", b.w, "join_error")
    /\ pc' = AfterJoinError(pc)
    /\ UNCHANGED <<registry, persisted, subscriptions, live, todo, recoveryRuns,
                   subscribeCalls, observed, warned, channelVars, loopVars, calls,
                   workerVars>>

\* The functions that the actions above model one by one.
Stateful(service, fn) ==
    \/ service = "spell" /\ fn \in {"install", "remove", "update_trigger_config"}
    \/ service = "worker" /\ fn \in {"create", "remove", "activate", "deactivate", "is_active"}

\* Results of a handler that changes nothing in the model: the relay
\* address is always there, the others succeed or fail on their arguments.
QueryResults(service, fn) ==
    IF service = "getDataSrv" /\ fn = "-relay-" THEN {"ok"} ELSE {"ok", "err"}

\* As AfterQuery, with a query that sets the flag of the inactive workers.
AfterQueryActivate(tbl) == [w \in DOMAIN tbl |-> IF tbl[w] = "inactive" THEN "active" ELSE tbl[w]]

\* spell list, the getDataSrv functions, error, response, worker list and
\* get_worker_id read or store script data; the worker table is as before.
AfterQuery(tbl) == tbl

\* A script calls a function name of a service other than those above: the
\* call reaches the function, the default handler of getDataSrv, or nothing.
PureCall(service, fn) ==
    /\ NodeStarted
    /\ ~BlocksScheduler(blocking)
    /\ calls < MaxCalls
    /\ ~Stateful(service, fn)
    /\ IF Handler(service, fn) = "none"
       THEN /\ lastCall' = Returned(Op(service, fn), 0, "no_handler")
            /\ UNCHANGED workers
       ELSE /\ \E res \in QueryResults(service, fn) :
                 lastCall' = Returned(Op(service, fn), 0, res)
            /\ workers' = AfterQuery(workers)
    /\ calls' = calls + 1
    /\ UNCHANGED <<registry, persisted, subscriptions, live, taskVars,
                   dealOf, dealCfg, dealSub, ops, done, blocking>>

----------------------------------------------------------------------------
Next ==
    \/ Start
    \/ RecoverSpell
    \/ SubscribeReturn
    \/ RecoveryDone
    \/ Send
    \/ Close
    \/ Receive
    \/ \E e \in inflight : Finish(e)
    \/ StreamEnd
    \/ TaskDone

Spec == Init /\ [][Next]_vars

\* The orchestrator together with the spell builtins that scripts call.
SystemNext ==
    \/ Next
    \/ SpellInstall
    \/ SpellUpdate
    \/ SpellRemove
    \/ \E w \in WorkerIds : IsActiveCall(w)
    \/ \E b \in blocking : IsActiveReturn(b)

SystemSpec == Init /\ [][SystemNext]_vars

\* A node without spells, and the worker builtins that scripts call on it.
WorkerInit == Init /\ persisted = <<>>

WorkerNext ==
    \/ Start
    \/ RecoveryDone
    \/ WorkerCreate
    \/ \E op \in WorkerOps, w \in WorkerIds : WorkerCall(op, w)
    \/ \E o \in ops : WorkerEnter(o)
    \/ \E o \in ops : WorkerLeave(o)
    \/ \E w \in WorkerIds : IsActiveCall(w)
    \/ \E b \in blocking : IsActiveReturn(b)

WorkerSpec == WorkerInit /\ [][WorkerNext]_vars

\* Function names a script may call on a service: those of the catalog and
\* one that is in no catalog.
FnNames(service) == Catalog(service) \cup {"other"}

\* A node with at most one spell in its registry.
FullInit == Init /\ Len(persisted) <= 1

\* The orchestrator with every builtin of the catalog; the calls of the
\* worker lifecycle share the budget of the other calls.
FullNext ==
    \/ SystemNext
    \/ calls < MaxCalls /\ WorkerCreate
    \/ \E op \in WorkerOps, w \in WorkerIds : calls < MaxCalls /\ WorkerCall(op, w)
    \/ \E o \in ops : WorkerEnter(o)
    \/ \E o \in ops : WorkerLeave(o)
    \/ \E b \in blocking : IsActiveFail(b)
    \/ \E service \in Services : \E fn \in FnNames(service) : PureCall(service, fn)

FullSpec == FullInit /\ [][FullNext]_vars

\* A node without spells and every builtin of the catalog, without events.
CatalogNext ==
    \/ Start
    \/ RecoveryDone
    \/ SpellInstall
    \/ SpellUpdate
    \/ SpellRemove
    \/ calls < MaxCalls /\ WorkerCreate
    \/ \E op \in WorkerOps, w \in WorkerIds : calls < MaxCalls /\ WorkerCall(op, w)
    \/ \E o \in ops : WorkerEnter(o)
    \/ \E o \in ops : WorkerLeave(o)
    \/ \E w \in WorkerIds : IsActiveCall(w)
    \/ \E b \in blocking : IsActiveReturn(b)
    \/ \E b \in blocking : IsActiveFail(b)
    \/ \E service \in Services : \E fn \in FnNames(service) : PureCall(service, fn)

CatalogSpec == WorkerInit /\ [][CatalogNext]_vars

\* A step of the "sorcerer" task itself.
TaskStep == RecoverSpell \/ RecoveryDone \/ Receive \/ StreamEnd \/ TaskDone

\* The runtime keeps polling the task, and with it the executions in flight:
\* a step of the task that stays possible is taken, and so is the end of an
\* execution that terminates.
FairSpec ==
    /\ Spec
    /\ WF_vars(TaskStep)
    /\ WF_vars(\E e \in inflight : Finish(e))

----------------------------------------------------------------------------
\* Vocabulary of the properties

RecoveryEnded == pc \in {"loop", "draining", "done"}
Registered == RegisteredSpells(registry)
Called == Range(subscribeCalls)
FinishedEvents == {r.event : r \in finished}
Dispatched == inflight \cup FinishedEvents
Buffered == Range(channel)

\* The owner resolves and the persisted config is valid and reschedulable.
Reschedulable(s) == persisted[s] = "periodic" /\ OwnerOf(s) \in LocalPeers

\* C1: when every registered spell is reschedulable and no subscribe call
\* failed, recovery ends with exactly one subscribe call per registered
\* spell: as many calls as spells, no spell called twice.
C1_RecoveryCount ==
    ((\A s \in Registered : Reschedulable(s)) /\ warned = {})
        => /\ \A i, j \in DOMAIN subscribeCalls :
                subscribeCalls[i] = subscribeCalls[j] => i = j
           /\ Called \subseteq Registered
           /\ RecoveryEnded =>
                /\ Len(subscribeCalls) = Cardinality(Registered)
                /\ Called = Registered

C1_Witness ==
    /\ pc = "loop"
    /\ warned = {}
    /\ Len(subscribeCalls) = MaxSpells
    /\ \E o \in Owners : Len(registry[o]) >= 2

\* C2: a spell that fails by an error of get_service_owner,
\* get_trigger_config, from_user_config or subscribe is logged and the loop
\* goes on with the next spell, the task staying in recovery; and whenever
\* recovery has ended, every reschedulable spell has had its subscribe call.
C2_FailureIsolation ==
    /\ [](RecoveryEnded => \A s \in Registered : Reschedulable(s) => s \in Called)
    /\ [][warned' # warned => (pc' = "recover" /\ todo' = Tail(todo))]_vars

C2_Witness ==
    /\ pc = "loop"
    /\ \E s1, s2 \in Registered :
         /\ s1 < s2
         /\ OwnerOf(s1) = OwnerOf(s2)
         /\ persisted[s1] \in {"noService", "unreadable", "malformed"}
         /\ s1 \in warned
         /\ s2 \in subscriptions

\* C3 (as claimed): when the owner of the spell being visited is not a local
\* peer, the step skips the spell and recovery goes on with the next one.
C3_OwnerUnresolvedSkipped ==
    [][(/\ pc = "recover" /\ todo # <<>>
        /\ get_service_owner(Head(todo)).ok
        /\ ~scope(get_service_owner(Head(todo)).owner).ok
        /\ <<pc, todo>>' # <<pc, todo>>)
       => (pc' = "recover" /\ todo' = Tail(todo))]_vars

\* C4: a spell whose persisted config is absent, malformed or not
\* reschedulable gets no subscribe call and stays in the registry.
C4_BadConfigSkipped ==
    \A s \in DOMAIN persisted :
        persisted[s] \in {"absent", "malformed", "oneshot"}
            => /\ s \notin Called
               /\ s \notin subscriptions
               /\ s \in Registered

C4_Witness ==
    /\ pc = "loop"
    /\ \E s \in Registered :
         /\ persisted[s] = "oneshot"
         /\ OwnerOf(s) \in LocalPeers
         /\ s \in warned
    /\ \E s \in Registered :
         /\ persisted[s] = "malformed"
         /\ OwnerOf(s) \in LocalPeers
         /\ s \in warned

\* C5: resubscribe_spells is called once, and an event is dispatched only
\* after the recovery loop has visited every spell.
C5_RecoveryBeforeEvents ==
    /\ recoveryRuns <= 1
    /\ pc # "init" => recoveryRuns = 1
    /\ (\E i \in DOMAIN dispatchCount : dispatchCount[i] > 0)
         => (RecoveryEnded /\ todo = <<>>)

C5_Witness ==
    /\ recoveryRuns = 1
    /\ Len(subscribeCalls) = MaxSpells
    /\ inflight # {}
    /\ channel # <<>>

\* C6: an event is dispatched at most once; the events taken from the
\* channel are exactly those in flight or finished; only sent events run.
C6_ConsumedOnce ==
    /\ \A i \in DOMAIN dispatchCount : dispatchCount[i] <= 1
    /\ {e.id : e \in Dispatched} = {i \in DOMAIN dispatchCount : dispatchCount[i] = 1}
    /\ sent \ Buffered = Dispatched
    /\ Dispatched \subseteq sent
    /\ inflight \cap FinishedEvents = {}
    /\ Cardinality(finished) = Cardinality(FinishedEvents)

C6_Witness ==
    /\ finished # {}
    /\ inflight # {}
    /\ channel = <<>>
    /\ Cardinality(sent) = MaxEvents

\* The events of S are for pairwise distinct spells.
DistinctSpells(S) == \A e1, e2 \in S : e1.spell = e2.spell => e1 = e2

\* C7: once the event loop runs, if at least two events for distinct spells
\* have been sent and none of the executions hangs, every one of them
\* eventually completes, whatever the order of emission and of completion.
C7_AllComplete ==
    (/\ pc = "loop"
     /\ Cardinality(sent) >= 2
     /\ DistinctSpells(sent)
     /\ \A e \in sent : ~e.hangs)
        ~> (\A e \in sent : ~e.hangs => e \in FinishedEvents)

C7_Witness ==
    /\ Cardinality(FinishedEvents) >= 2
    /\ DistinctSpells(FinishedEvents)
    /\ FinishedEvents = sent

\* C8: while the loop runs, a buffered event can always be taken, however
\* many executions are in flight, and an execution in flight that terminates
\* can always finish; while an execution hangs, every event whose own
\* execution terminates still completes.
C8_NoConcurrencyLimit ==
    /\ []((pc = "loop" /\ channel # <<>>) => ENABLED Receive)
    /\ [](\A e \in inflight : ~e.hangs => ENABLED Finish(e))
    /\ (pc = "loop" /\ \E e \in inflight : e.hangs)
          ~> (\A e \in sent : ~e.hangs => e \in FinishedEvents)

C8_Witness ==
    \E e1 \in inflight, e2 \in FinishedEvents :
        /\ e1.hangs
        /\ e1.id < e2.id
        /\ e1.spell # e2.spell

\* C9 (as claimed): the task has terminated only if the channel was closed,
\* and then every dispatched execution has finished.
C9_TerminatesOnlyAfterClose ==
    pc \in {"done", "panicked"}
        => /\ closed
           /\ inflight = {}
           /\ \A i \in DOMAIN dispatchCount :
                dispatchCount[i] > 0 => \E e \in FinishedEvents : e.id = i

\* C10: the event loop is left only when the channel is closed and drained,
\* whatever the outcome of the executions; after a failed execution a
\* buffered event can still be taken.
C10_ErrorsKeepLoop ==
    /\ [][(pc = "loop" /\ pc' # "loop")
            => (closed /\ channel = <<>> /\ pc' = "draining")]_vars
    /\ []((/\ pc = "loop"
           /\ channel # <<>>
           /\ \E r \in finished : r.outcome = "err") => ENABLED Receive)

C10_Witness ==
    /\ pc = "loop"
    /\ ~closed
    /\ \E r \in finished, e \in inflight :
         r.outcome = "err" /\ r.event.id < e.id

\* C11 (as claimed): no spell, of the registry or bound to a deal, ever has
\* more than one live subscription in the event bus.
C11_AtMostOneSubscription ==
    /\ \A s \in DOMAIN live : live[s] <= 1
    /\ \A w \in WorkerIds : dealSub[w] <= 1

\* C12: the registry changes only in a step of the install or remove
\* builtin, and a live subscription ends only in a step of a builtin; no
\* step of recovery or of the event loop does either.
C12_NoAutoDelete ==
    [][/\ registry' # registry
          => (calls' = calls + 1 /\ lastCall'.op \in {"spell.install", "spell.remove"})
       /\ (\E s \in DOMAIN live : live'[s] < live[s])
          => (calls' = calls + 1 /\ lastCall'.op \in {"spell.update_trigger_config", "spell.remove"})
       /\ (<<pc, todo, inflight>>' # <<pc, todo, inflight>>)
          => (registry' = registry /\ \A s \in DOMAIN live : live'[s] >= live[s])]_vars

C12_Witness ==
    /\ \E s \in warned : s \in Registered
    /\ \E r \in finished : r.outcome = "err"
    /\ lastCall.op = "spell.remove"
    /\ pc = "loop"

----------------------------------------------------------------------------
\* Vocabulary of the worker properties

\* No call on the worker is between its two halves.
Quiescent(w) == ~\E o \in ops : o.w = w /\ o.step = "run"

\* The activation flag and the subscription of the deal-bound spell agree.
Consistent(w) ==
    /\ (workers[w] = "active" /\ into_rescheduled(dealCfg[w]) # "none") => dealSub[w] = 1
    /\ workers[w] = "inactive" => dealSub[w] = 0

\* A call returns in the step.
Returns(op, w) ==
    /\ lastCall'.n = lastCall.n + 1
    /\ lastCall'.op = op
    /\ lastCall'.arg = w

Last(seq) == seq[Len(seq)]

\* C13 (as claimed): whenever no activate and no deactivate call on a worker
\* is in progress, the flag and the subscription of the worker agree.
C13_AsClaimed ==
    \A w \in WorkerIds :
        (~\E o \in ops : o.w = w /\ o.step = "run" /\ o.op \in {"activate", "deactivate"})
        => Consistent(w)

\* C13 (amended): whenever no activate, deactivate or remove call on a worker
\* is in progress, an active worker has a live subscription for its
\* deal-bound spell when the config of the spell can be rescheduled, and an
\* inactive worker has none.
C13_ActivationConsistency == \A w \in WorkerIds : Quiescent(w) => Consistent(w)

C13_Witness ==
    \E w \in WorkerIds :
        /\ Quiescent(w)
        /\ workers[w] = "active"
        /\ dealSub[w] = 1
        /\ done[w] = <<"deactivate", "activate">>

C15_ActivateThenDeactivate ==
    [][\A w \in WorkerIds :
         (/\ Len(done[w]) >= 2
          /\ SubSeq(done[w], Len(done[w]) - 1, Len(done[w])) = <<"activate", "deactivate">>
          /\ Quiescent(w))
         => /\ dealSub[w] = 0
            /\ Returns("is_active", w) => lastCall'.result = "false"]_vars

C15_Witness ==
    \E w \in WorkerIds :
        /\ done[w] = <<"activate", "deactivate">>
        /\ dealCfg[w] = "periodic"
        /\ lastCall.op = "is_active"
        /\ lastCall.arg = w
        /\ lastCall.result = "false"

C17_RemoveRemoved ==
    [][\A w \in WorkerIds :
         (Returns("remove", w) /\ workers[w] = "removed")
         => /\ lastCall'.result = "not_found"
            /\ UNCHANGED <<workers, dealOf, dealCfg, dealSub, registry, subscriptions, live>>]_vars

C17_Witness ==
    /\ lastCall.op = "remove"
    /\ lastCall.result = "not_found"
    /\ lastCall.arg \in WorkerIds
    /\ workers[lastCall.arg] = "removed"
    /\ done[lastCall.arg] = <<"activate", "remove">>

C20_SchedulerNotBlocked ==
    blocking # {} =>
        /\ (LoopRunning(pc) /\ channel # <<>>) => ENABLED Receive
        /\ \A e \in inflight : (pc \in {"loop", "draining"} /\ ~e.hangs) => ENABLED Finish(e)
        /\ (NodeStarted /\ calls < MaxCalls /\ Registered # {}) => ENABLED SpellRemove

C20_Witness ==
    \E b \in blocking :
        /\ \E r \in finished : r.event.id >= b.nextId
        /\ lastCall.n > b.n

----------------------------------------------------------------------------
\* Vocabulary of the catalog properties

UnitBuiltins ==
    {"spell.remove", "spell.update_trigger_config", "errorHandlingSrv.error",
     "callbackSrv.response", "remove", "activate", "deactivate"}

ValueBuiltins ==
    {"spell.install", "spell.list", "getDataSrv.spell_id", "getDataSrv.-relay-",
     "getDataSrv.default", "create", "get_worker_id", "list", "is_active"}

QueryBuiltins ==
    {"is_active", "list", "get_worker_id", "spell.list", "getDataSrv.spell_id",
     "getDataSrv.-relay-", "getDataSrv.default", "errorHandlingSrv.error",
     "callbackSrv.response"}

NoHandlerNames == {"spell.other", "errorHandlingSrv.other", "callbackSrv.other", "other"}

\* C21 (as claimed): a unit-returning builtin that succeeds yields no value,
\* and a value-returning builtin yields exactly one value whenever it returns.
C21_AsClaimed ==
    /\ (lastCall.op \in UnitBuiltins /\ lastCall.result \in OkResults) => lastCall.out = "empty"
    /\ lastCall.op \in ValueBuiltins => lastCall.out = "value"

\* C21 (amended): a unit-returning builtin that succeeds yields no value, a
\* value-returning builtin that succeeds yields exactly one value, and a
\* builtin of either kind that fails yields an error and no value.
C21_ReturnSlot ==
    /\ (lastCall.op \in UnitBuiltins /\ lastCall.result \in OkResults) => lastCall.out = "empty"
    /\ (lastCall.op \in ValueBuiltins /\ lastCall.result \in OkResults) => lastCall.out = "value"
    /\ (lastCall.op \in UnitBuiltins \cup ValueBuiltins /\ lastCall.result \notin OkResults)
       => lastCall.out = "error"

C21_Witness ==
    /\ lastCall.op = "deactivate"
    /\ lastCall.out = "empty"
    /\ workers[lastCall.arg] = "inactive"

\* C22: the catalog has the five services with the function names listed,
\* getDataSrv alone has a default handler, and a call returns without having
\* reached a handler exactly when it names a function that is not in the
\* catalog of one of the other four services.
C22_FixedCatalog ==
    /\ Services = {"spell", "getDataSrv", "errorHandlingSrv", "callbackSrv", "worker"}
    /\ Catalog("spell") = {"install", "remove", "list", "update_trigger_config"}
    /\ Catalog("getDataSrv") = {"spell_id", "-relay-"}
    /\ Catalog("errorHandlingSrv") = {"error"}
    /\ Catalog("callbackSrv") = {"response"}
    /\ Catalog("worker") = {"create", "get_worker_id", "remove", "list",
                            "activate", "deactivate", "is_active"}
    /\ lastCall.result = "no_handler" <=> lastCall.op \in NoHandlerNames
    /\ lastCall.op = "getDataSrv.default" => lastCall.out \in {"value", "error"}

C22_Witness ==
    /\ lastCall.op = "spell.other"
    /\ lastCall.result = "no_handler"
    /\ lastCall.n = MaxCalls

\* C23: an activate call on a worker whose last call was an activate
\* returns without error, and once it has returned the worker is active with
\* the subscription that a single activate leaves: one when the config of
\* the deal-bound spell can be rescheduled.
C23_ActivateIdempotent ==
    [][\A w \in WorkerIds :
         /\ (Returns("activate", w) /\ done[w] # <<>> /\ Last(done[w]) = "activate")
            => lastCall'.result = "ok"
         /\ (/\ Len(done'[w]) >= 2
             /\ SubSeq(done'[w], Len(done'[w]) - 1, Len(done'[w])) = <<"activate", "activate">>
             /\ ~\E o \in ops' : o.w = w /\ o.step = "run")
            => /\ workers'[w] = "active"
               /\ dealSub'[w] = SubAfterActivate(dealCfg'[w])
               /\ dealSub'[w] <= 1]_vars

C23_Witness ==
    \E w \in WorkerIds :
        /\ done[w] = <<"activate", "activate">>
        /\ Quiescent(w)
        /\ dealSub[w] = 1
        /\ lastCall.op = "activate"

\* C24: a deactivate call on a worker that is inactive (just created, or
\* deactivated by the call before) returns without error, and once it has
\* returned the worker is inactive without subscription.
C24_DeactivateIdempotent ==
    [][\A w \in WorkerIds :
         /\ (Returns("deactivate", w) /\ Found(workers, w)
             /\ (done[w] = <<>> \/ Last(done[w]) = "deactivate"))
            => lastCall'.result = "ok"
         /\ (/\ done'[w] # <<>>
             /\ Last(done'[w]) = "deactivate"
             /\ (Len(done'[w]) = 1 \/ done'[w][Len(done'[w]) - 1] = "deactivate")
             /\ ~\E o \in ops' : o.w = w /\ o.step = "run")
            => /\ workers'[w] = "inactive"
               /\ dealSub'[w] = 0]_vars

C24_Witness ==
    \E w \in WorkerIds :
        /\ done[w] = <<"activate", "deactivate", "deactivate">>
        /\ Quiescent(w)
        /\ workers[w] = "inactive"
        /\ lastCall.op = "deactivate"

\* No activate call has run on the worker.
NoActivateYet(w) ==
    /\ \A i \in DOMAIN done[w] : done[w][i] # "activate"
    /\ ~\E o \in ops : o.w = w /\ o.op = "activate" /\ o.step = "run"

\* C25: a worker on which no activate call has run is inactive, and an
\* is_active call on it that returns a value returns false.
C25_InactiveAfterCreate ==
    [][\A w \in WorkerIds :
         (Found(workers, w) /\ NoActivateYet(w))
         => /\ workers[w] = "inactive"
            /\ (Returns("is_active", w) /\ lastCall'.out = "value")
               => lastCall'.result = "false"]_vars

C25_Witness ==
    /\ lastCall.op = "is_active"
    /\ lastCall.result = "false"
    /\ lastCall.arg \in WorkerIds
    /\ workers[lastCall.arg] = "inactive"
    /\ NoActivateYet(lastCall.arg)

C27_BlockingFailureIsError ==
    [][(lastCall'.n # lastCall.n /\ lastCall'.result = "join_error")
       => /\ lastCall'.op = "is_active"
          /\ lastCall'.out = "error"
          /\ UNCHANGED <<pc, todo, channel, closed, inflight, finished, ops,
                         workers, dealSub, live, registry>>]_vars

C27_Witness ==
    /\ lastCall.result = "join_error"
    /\ pc = "loop"
    /\ \E e \in inflight : ~e.hangs
    /\ channel # <<>>

\* C28: while executions of a spell are in flight the loop can still take a
\* further event of that spell, and each of the executions that terminates
\* can finish, whichever started first.
C28_SameSpellConcurrent ==
    /\ (/\ pc = "loop"
        /\ channel # <<>>
        /\ \E e \in inflight : e.spell = Head(channel).spell)
       => ENABLED Receive
    /\ \A e1 \in inflight, e2 \in inflight :
         (e1.spell = e2.spell /\ ~e1.hangs /\ ~e2.hangs)
         => (ENABLED Finish(e1) /\ ENABLED Finish(e2))

C28_Witness ==
    \E e1 \in inflight, e2 \in FinishedEvents :
        /\ e1.spell = e2.spell
        /\ e1.id < e2.id
        /\ ~e1.hangs

\* The subscribe calls of recovery that have not returned.
Outstanding == {i \in DOMAIN subscribeCalls : subscribeCalls[i] \in Range(todo)}

\* C29: at most one subscribe call of recovery is outstanding, and exactly
\* while the task awaits it; until it returns no further spell is examined
\* or subscribed by recovery and no event is dispatched.
C29_RecoverySequential ==
    /\ [](Cardinality(Outstanding) = IF pc = "subscribing" THEN 1 ELSE 0)
    /\ [](pc = "subscribing" => (Dispatched = {} /\ ~ENABLED Receive /\ ~ENABLED RecoverSpell))
    /\ [][pc = "subscribing"
          => /\ subscribeCalls' = subscribeCalls
             /\ dispatchCount' = dispatchCount
             /\ inflight' = inflight
             /\ pc' = "subscribing" => (todo' = todo /\ observed' = observed)]_vars

C29_Witness ==
    /\ pc = "subscribing"
    /\ channel # <<>>
    /\ Len(todo) = 1
    /\ observed = 1

====
